---- MODULE Spec2Model ----
(***************************************************************************)
(* A model of simd-calc's front end: the Lexer (src/main.py), the Parser   *)
(* (src/compiler/parser.py) and the IRBuilder (src/compiler/ir/builder.py).*)
(* Source text is a sequence of one-character strings; Python's 0-based    *)
(* cursors are kept 0-based, so source[current] in Python is               *)
(* source[current + 1] here.                                               *)
(***************************************************************************)
EXTENDS Integers, Sequences, FiniteSets, TLC

VARIABLES
    \* Lexer (src/main.py)
    source, start, current, tokens, line, column, lexStatus, lexError,
    scanned, tokenStarts,
    \* Parser (src/compiler/parser.py)
    ptokens, pcurrent, program, pstatus, perror, origin,
    \* IRBuilder (src/compiler/ir/builder.py)
    ast, instructions, current_variable_id, frames, retval, bstatus,
    \* the calls made on the object so far (tokenize, parse or build), and
    \* what the first call left when it ended
    invocation, firstCall

lexVars   == <<source, start, current, tokens, line, column, lexStatus, lexError,
               scanned, tokenStarts>>
parseVars == <<ptokens, pcurrent, program, pstatus, perror, origin>>
buildVars == <<ast, instructions, current_variable_id, frames, retval, bstatus>>
callVars  == <<invocation, firstCall>>
vars      == <<lexVars, parseVars, buildVars, callVars>>

\* Python's None
None == "None"

\* None where an AST node is expected (statement() returning None)
NoneNode == [type |-> "None"]

\* No SyntaxError raised; a raised one carries the character, line and column
\* of its message.
NoError == [char |-> None, line |-> 0, column |-> 0]

\* None where an IRVariable is expected (an instruction without result,
\* build() returning None)
NoVariable == [tag |-> "None", id |-> -1, literal |-> None, type |-> None]

\* no call has ended yet; once the first has: its outcome, and the cursor or
\* counter it left in the object
NoOutcome ==
    [status |-> None, tokens |-> <<>>, error |-> NoError, program |-> <<>>,
     perror |-> None, instructions |-> <<>>, retval |-> NoVariable,
     cursor |-> 0, counter |-> 0]

(***************************************************************************)
(* Bounds of the model                                                     *)
(***************************************************************************)
MaxSrcLen == 3

\* operators in a generated expression chain
MaxOps == 3

\* top-level constructs in a generated program
MaxStmts == 2

\* tokens in an arbitrary token sequence
MaxRawLen == 3

\* nesting of binary expressions in a generated AST
MaxDepth == 2

(***************************************************************************)
(* Characters                                                              *)
(***************************************************************************)
NL == "\n"

Letters == {"f", "o", "r", "x", "y", "c"}

Digits == {"1", "2"}

\* str.isalpha / str.isdigit / str.isalnum on the characters of the model
IsAlpha(c) == c \in Letters

IsDigit(c) == c \in Digits

IsAlnum(c) == IsAlpha(c) \/ IsDigit(c)

(***************************************************************************)
(* TokenKind                                                               *)
(***************************************************************************)
TokenKindValue ==
    [PLUS |-> 0, MINUS |-> 1, MULTIPLY |-> 2, DIVIDE |-> 3, EXPONENT |-> 4,
     PLUS_EQUAL |-> 5, MINUS_EQUAL |-> 6, MULTIPLY_EQUAL |-> 7, DIVIDE_EQUAL |-> 8,
     ARRAY_OPEN |-> 9, ARRAY_CLOSE |-> 10, PAREN_OPEN |-> 11, PAREN_CLOSE |-> 12,
     BRACE_OPEN |-> 13, BRACE_CLOSE |-> 14, ASSIGNMENT |-> 15, SEMICOLON |-> 16,
     COMMA |-> 17, RANGE |-> 18, FOR |-> 19, IDENTIFIER |-> 20, NUMBER |-> 21]

TokenKind == DOMAIN TokenKindValue

\* The literal each kind is documented with in the enum (IDENTIFIER and
\* NUMBER have none).
CanonicalLiteral ==
    [PLUS |-> <<"+">>, MINUS |-> <<"-">>, MULTIPLY |-> <<"*">>, DIVIDE |-> <<"/">>,
     EXPONENT |-> <<"^">>,
     PLUS_EQUAL |-> <<"+", "=">>, MINUS_EQUAL |-> <<"-", "=">>,
     MULTIPLY_EQUAL |-> <<"*", "=">>, DIVIDE_EQUAL |-> <<"/", "=">>,
     ARRAY_OPEN |-> <<"[">>, ARRAY_CLOSE |-> <<"]">>,
     PAREN_OPEN |-> <<"(">>, PAREN_CLOSE |-> <<")">>,
     BRACE_OPEN |-> <<"{">>, BRACE_CLOSE |-> <<"}">>,
     ASSIGNMENT |-> <<":", "=">>, SEMICOLON |-> <<";">>, COMMA |-> <<",">>,
     RANGE |-> <<".", ".">>, FOR |-> <<"f", "o", "r">>]

is_operator(kind) == TokenKindValue[kind] <= TokenKindValue["EXPONENT"]

operator_precedence(kind) ==
    CASE kind \in {"PLUS", "MINUS"} -> 1
      [] kind \in {"MULTIPLY", "DIVIDE"} -> 2
      [] kind = "EXPONENT" -> 3
      [] OTHER -> 0

operator_associativity(kind) ==
    CASE kind \in {"PLUS", "MINUS", "MULTIPLY", "DIVIDE"} -> "LEFT"
      [] kind = "EXPONENT" -> "RIGHT"
      [] OTHER -> "UNKNOWN"

(***************************************************************************)
(* Lexer.  A lexer state s is the record of the object's mutable fields.   *)
(***************************************************************************)
LexState == [start |-> start, current |-> current, tokens |-> tokens,
             line |-> line, column |-> column]

Lexer_advance_keeps_column(s) == [s EXCEPT !.current = @ + 1]

Lexer_advance(s) == [s EXCEPT !.current = @ + 1, !.column = @ + 1]

Lexer_peek(src, s) == IF s.current < Len(src) THEN src[s.current + 1] ELSE None

add_token_never_advances(src, s, kind, adv) ==
    [s EXCEPT !.tokens = Append(@, [kind |-> kind,
                                    literal |-> SubSeq(src, s.start + 1, s.current),
                                    line |-> s.line,
                                    column |-> s.column])]

add_token(src, s, kind, adv) ==
    LET column_start == s.column
        s1 == IF adv THEN Lexer_advance(s) ELSE s
        token == [kind |-> kind,
                  literal |-> SubSeq(src, s1.start + 1, s1.current),
                  line |-> s1.line,
                  column |-> column_start]
    IN  [s1 EXCEPT !.tokens = Append(@, token)]

RECURSIVE IdentifierRun(_, _)
\* the while loop of consume_identifier: the state after the run is consumed
IdentifierRun(src, s) ==
    LET next_char == Lexer_peek(src, s)
    IN  IF next_char # None /\ (IsAlnum(next_char) \/ next_char = "_")
        THEN IdentifierRun(src, Lexer_advance(s))
        ELSE s

consume_identifier(src, s) ==
    LET s1 == IdentifierRun(src, s)
        identifier == SubSeq(src, s.start + 1, s1.current)
        kind == IF identifier = <<"f", "o", "r">> THEN "FOR" ELSE "IDENTIFIER"
    IN  add_token(src, s1, kind, FALSE)

RECURSIVE NumberRun(_, _)
\* the while loop of consume_number
NumberRun(src, s) ==
    LET next_char == Lexer_peek(src, s)
    IN  IF next_char # None /\ (IsDigit(next_char) \/ next_char = ".")
        THEN NumberRun(src, Lexer_advance(s))
        ELSE s

consume_number(src, s) == add_token(src, NumberRun(src, s), "NUMBER", FALSE)

RECURSIVE CommentRun_eats_newline(_, _)
CommentRun_eats_newline(src, s) ==
    IF s.current < Len(src)
    THEN IF src[s.current + 1] = NL
         THEN [s EXCEPT !.current = @ + 1, !.column = @ + 1]
         ELSE CommentRun_eats_newline(src, [s EXCEPT !.current = @ + 1,
                                                     !.column = @ + 1])
    ELSE s

RECURSIVE CommentRun(_, _)
\* the while loop of the '#' case: stops in front of the newline
CommentRun(src, s) ==
    IF Lexer_peek(src, s) # None /\ Lexer_peek(src, s) # NL
    THEN CommentRun(src, Lexer_advance(s))
    ELSE s

\* The second match statement of tokenize, first matching case wins:
\* the kind and whether add_token advances; kind None is the default case.
SymbolCase(c, n) ==
    CASE c = "+" /\ n = "=" -> [kind |-> "PLUS_EQUAL", adv |-> TRUE]
      [] c = "+" /\ n # "=" -> [kind |-> "PLUS", adv |-> FALSE]
      [] c = "-" /\ n = "=" -> [kind |-> "MINUS_EQUAL", adv |-> TRUE]
      [] c = "-" /\ n # "=" -> [kind |-> "MINUS", adv |-> FALSE]
      [] c = "*" /\ n = "=" -> [kind |-> "MULTIPLY_EQUAL", adv |-> TRUE]
      [] c = "*" /\ n # "=" -> [kind |-> "MULTIPLY", adv |-> FALSE]
      [] c = "/" /\ n = "=" -> [kind |-> "DIVIDE_EQUAL", adv |-> TRUE]
      [] c = "/" /\ n # "=" -> [kind |-> "DIVIDE", adv |-> FALSE]
      [] c = "^" -> [kind |-> "EXPONENT", adv |-> FALSE]
      [] c = "[" -> [kind |-> "ARRAY_OPEN", adv |-> FALSE]
      [] c = "]" -> [kind |-> "ARRAY_CLOSE", adv |-> FALSE]
      [] c = "(" -> [kind |-> "PAREN_OPEN", adv |-> FALSE]
      [] c = ")" -> [kind |-> "PAREN_CLOSE", adv |-> FALSE]
      [] c = "{" -> [kind |-> "BRACE_OPEN", adv |-> FALSE]
      [] c = "}" -> [kind |-> "BRACE_CLOSE", adv |-> FALSE]
      [] c = ":" /\ n = "=" -> [kind |-> "ASSIGNMENT", adv |-> TRUE]
      [] c = ";" -> [kind |-> "SEMICOLON", adv |-> FALSE]
      [] c = "," -> [kind |-> "COMMA", adv |-> FALSE]
      [] c = "." /\ n = "." -> [kind |-> "RANGE", adv |-> TRUE]
      [] OTHER -> [kind |-> None, adv |-> FALSE]

\* One iteration of the while loop of tokenize, from a state with
\* current < len(source): the branch taken, the state it leaves and the
\* SyntaxError it raises (NoError when it raises none).
ScanStep(src, s) ==
    LET s0 == Lexer_advance([s EXCEPT !.start = s.current])
        current_char == src[s.current + 1]
        next_char == Lexer_peek(src, s0)
        sym == SymbolCase(current_char, next_char)
    IN  CASE current_char \in {" ", "\t", "\r"} ->
               [branch |-> "blank", s |-> s0, error |-> NoError]
          [] current_char = NL ->
               [branch |-> "newline",
                s |-> [s0 EXCEPT !.line = @ + 1, !.column = 0], error |-> NoError]
          [] current_char = "#" ->
               [branch |-> "comment", s |-> CommentRun(src, s0), error |-> NoError]
          [] OTHER ->
               IF sym.kind # None
               THEN [branch |-> "symbol",
                     s |-> add_token(src, s0, sym.kind, sym.adv), error |-> NoError]
               ELSE IF IsAlpha(current_char)
               THEN [branch |-> "identifier",
                     s |-> consume_identifier(src, s0), error |-> NoError]
               ELSE IF IsDigit(current_char)
               THEN [branch |-> "number",
                     s |-> consume_number(src, s0), error |-> NoError]
               ELSE [branch |-> "invalid", s |-> s0,
                     error |-> [char |-> current_char, line |-> s0.line,
                                column |-> s0.column]]

\* Lexer.__init__
LexerInit(src) == [start |-> 0, current |-> 0, tokens |-> <<>>, line |-> 1, column |-> 0]

RECURSIVE TokenizeFrom(_, _)
\* tokenize run to its end: the token list it returns, or the error it raises
TokenizeFrom(src, s) ==
    IF s.current < Len(src)
    THEN LET r == ScanStep(src, s)
         IN  IF r.error # NoError
             THEN [status |-> "raised", tokens |-> <<>>, error |-> r.error]
             ELSE TokenizeFrom(src, r.s)
    ELSE [status |-> "returned", tokens |-> s.tokens, error |-> NoError]

tokenize(src) == TokenizeFrom(src, LexerInit(src))

(***************************************************************************)
(* Lexer: the sources of the model and the actions of tokenize             *)
(***************************************************************************)
Alphabet == {"x", "1", "+", "=", ":", ".", "#", NL, " ", "@", "_"}

RECURSIVE Strings(_)
\* all character sequences over Alphabet of length n
Strings(n) ==
    IF n = 0 THEN {<<>>}
    ELSE {Append(w, c) : w \in Strings(n - 1), c \in Alphabet}

\* "x := 1; # c\ny := 2;" and a few sources past the length bound
ExampleSources ==
    {<<"x", " ", ":", "=", " ", "1", ";", " ", "#", " ", "c", NL,
       "y", " ", ":", "=", " ", "2", ";">>,
     <<"f", "o", "r", " ", "f", "o", "r", "x">>,
     <<"x", "\t", "y", "\r", NL, "@">>,
     <<"x", "#", "@", "#", NL, "#", NL, "x", "_", "1", " ", "@">>,
     <<"1", ".", "1", ".", "#", "1", NL, NL, " ", ".", ".", "1">>,
     <<"x", "+", "=", "1", "#", "=", NL, ":", "=", "#", NL, " ", ":">>,
     <<"f", "(", "1", ",", "2", ")", ";", " ", "#", "f", "(", ")", NL,
       "[", "]", "{", "}", "^", "-", "*", "/", "/", "=">>}

Sources ==
    UNION {Strings(n) : n \in 0..MaxSrcLen}
      \cup {CanonicalLiteral[k] : k \in DOMAIN CanonicalLiteral}
      \cup ExampleSources

InitLex ==
    /\ source \in Sources
    /\ start = 0 /\ current = 0 /\ tokens = <<>> /\ line = 1 /\ column = 0
    /\ lexStatus = "running" /\ lexError = NoError
    /\ scanned = <<>> /\ tokenStarts = <<>>
    \* no parser and no builder
    /\ ptokens = <<>> /\ pcurrent = 0 /\ program = <<>> /\ pstatus = "idle"
    /\ perror = None /\ origin = [class |-> "none", constructs |-> <<>>]
    /\ ast = NoneNode /\ instructions = <<>> /\ current_variable_id = 0
    /\ frames = <<>> /\ retval = NoVariable /\ bstatus = "idle"
    /\ invocation = 1 /\ firstCall = NoOutcome

\* One iteration of the scan loop that takes the given branch.
LexIteration(branch) ==
    /\ lexStatus = "running"
    /\ current < Len(source)
    /\ LET r == ScanStep(source, LexState)
       IN  /\ r.branch = branch
           /\ start' = r.s.start
           /\ current' = r.s.current
           /\ tokens' = r.s.tokens
           /\ line' = r.s.line
           /\ column' = r.s.column
           /\ lexError' = r.error
           /\ lexStatus' = IF r.error # NoError THEN "raised" ELSE "running"
           /\ scanned' = Append(scanned, r.s.start)
           /\ tokenStarts' = IF Len(r.s.tokens) > Len(tokens)
                             THEN Append(tokenStarts, r.s.start)
                             ELSE tokenStarts
    /\ UNCHANGED source

LexBlank == LexIteration("blank") /\ UNCHANGED <<parseVars, buildVars, callVars>>

LexNewline == LexIteration("newline") /\ UNCHANGED <<parseVars, buildVars, callVars>>

LexComment == LexIteration("comment") /\ UNCHANGED <<parseVars, buildVars, callVars>>

LexSymbol == LexIteration("symbol") /\ UNCHANGED <<parseVars, buildVars, callVars>>

LexIdentifier == LexIteration("identifier") /\ UNCHANGED <<parseVars, buildVars, callVars>>

LexNumber == LexIteration("number") /\ UNCHANGED <<parseVars, buildVars, callVars>>

LexInvalid == LexIteration("invalid") /\ UNCHANGED <<parseVars, buildVars, callVars>>

\* the loop condition fails: return self.tokens
LexReturn ==
    /\ lexStatus = "running"
    /\ current >= Len(source)
    /\ lexStatus' = "returned"
    /\ UNCHANGED <<source, start, current, tokens, line, column, lexError,
                   scanned, tokenStarts>>
    /\ UNCHANGED <<parseVars, buildVars, callVars>>

NextLex ==
    \/ LexBlank
    \/ LexNewline
    \/ LexComment
    \/ LexSymbol
    \/ LexIdentifier
    \/ LexNumber
    \/ LexInvalid
    \/ LexReturn

(***************************************************************************)
(* AST (src/compiler/ast.py).  A node is a record tagged with its class.   *)
(***************************************************************************)
ASTIdentifier(name) == [type |-> "ASTIdentifier", name |-> name]

ASTNumber(literal) == [type |-> "ASTNumber", literal |-> literal]

ASTBinaryExpression(operation, left, right) ==
    [type |-> "ASTBinaryExpression", operation |-> operation,
     left |-> left, right |-> right]

ASTVariableDeclaration(identifier, expression) ==
    [type |-> "ASTVariableDeclaration", identifier |-> identifier,
     expression |-> expression]

ASTFunctionCall(function, parameters) ==
    [type |-> "ASTFunctionCall", function |-> function, parameters |-> parameters]

ASTProgram(nodes) == [type |-> "ASTProgram", nodes |-> nodes]

\* BinaryExpressionKind(kind.value): the member with the operator token's value
BinaryExpressionKind(kind) ==
    CASE TokenKindValue[kind] = 0 -> "PLUS"
      [] TokenKindValue[kind] = 1 -> "MINUS"
      [] TokenKindValue[kind] = 2 -> "MULTIPLY"
      [] TokenKindValue[kind] = 3 -> "DIVIDE"
      [] TokenKindValue[kind] = 4 -> "EXPONENT"

\* the local `expression` of Parser.expression while no branch has bound it
Unbound == [type |-> "Unbound"]

(***************************************************************************)
(* Parser (src/compiler/parser.py).  Each method is an operator from the   *)
(* token list and the cursor to its outcome: the node returned and the     *)
(* cursor left, or the exception raised.                                   *)
(***************************************************************************)
NoToken == [kind |-> None, literal |-> None]

Parser_peek(toks, cur, lookahead) ==
    IF cur + lookahead < Len(toks) THEN toks[cur + lookahead + 1] ELSE NoToken

Return(node, cur) == [ok |-> TRUE, error |-> None, node |-> node, cur |-> cur]

Raise(error, cur) == [ok |-> FALSE, error |-> error, node |-> NoneNode, cur |-> cur]

\* Parser.advance: the cursor after it, or IndexError past the end
Parser_advance(toks, cur) ==
    IF cur < Len(toks) THEN Return(toks[cur + 1], cur + 1)
    ELSE Raise("IndexError", cur)

\* `return expression` / a use of `expression`: UnboundLocalError when the
\* primary was neither an IDENTIFIER nor a NUMBER
ReturnExpression(e, cur) ==
    IF e.type = "Unbound" THEN Raise("UnboundLocalError", cur) ELSE Return(e, cur)

final_precedence_keeps_right(kind) == operator_precedence(kind)

\* final_precedence: the floor handed to the right operand
final_precedence(kind) ==
    IF operator_associativity(kind) = "RIGHT"
    THEN operator_precedence(kind) - 1
    ELSE operator_precedence(kind)

RECURSIVE expression(_, _, _), OperatorLoop(_, _, _, _), function_call(_, _),
          ArgumentLoop(_, _, _)

expression(toks, cur, precedence_limit) ==
    LET token == Parser_peek(toks, cur, 0)
        after == Parser_peek(toks, cur, 1)
    IN  IF token.kind = None THEN Raise("AttributeError", cur)
        ELSE IF token.kind = "IDENTIFIER" /\ after.kind = None
        THEN Raise("AttributeError", cur)
        ELSE IF token.kind = "IDENTIFIER" /\ after.kind = "PAREN_OPEN"
        THEN function_call(toks, cur)
        ELSE LET e == IF token.kind = "IDENTIFIER" THEN ASTIdentifier(token.literal)
                      ELSE IF token.kind = "NUMBER" THEN ASTNumber(token.literal)
                      ELSE Unbound
             IN  OperatorLoop(toks, cur + 1, precedence_limit, e)

\* the while loop of Parser.expression, entered with `expression` = e
OperatorLoop(toks, cur, precedence_limit, e) ==
    LET next_token == Parser_peek(toks, cur, 0)
    IN  IF next_token.kind # None /\ is_operator(next_token.kind)
        THEN IF operator_precedence(next_token.kind) <= precedence_limit
             THEN ReturnExpression(e, cur)
             ELSE LET right == expression(toks, cur + 1,
                                          final_precedence(next_token.kind))
                  IN  IF ~right.ok THEN right
                      ELSE IF e.type = "Unbound"
                      THEN Raise("UnboundLocalError", right.cur)
                      ELSE OperatorLoop(toks, right.cur, precedence_limit,
                               ASTBinaryExpression(
                                   BinaryExpressionKind(next_token.kind),
                                   e, right.node))
        ELSE ReturnExpression(e, cur)

declaration(toks, cur) ==
    LET name == Parser_advance(toks, cur)
        assign == Parser_advance(toks, name.cur)
        e == expression(toks, assign.cur, 0)
        semicolon == Parser_advance(toks, e.cur)
    IN  IF ~name.ok THEN name
        ELSE IF ~assign.ok THEN assign
        ELSE IF ~e.ok THEN e
        ELSE IF ~semicolon.ok THEN semicolon
        ELSE Return(ASTVariableDeclaration(ASTIdentifier(name.node.literal), e.node),
                    semicolon.cur)

function_call(toks, cur) ==
    LET name == Parser_advance(toks, cur)
        open == Parser_advance(toks, name.cur)
    IN  IF ~name.ok THEN name
        ELSE IF ~open.ok THEN open
        ELSE LET args == ArgumentLoop(toks, open.cur, <<>>)
                 last == Parser_peek(toks, args.cur, 0)
             IN  IF ~args.ok THEN args
                 ELSE IF last.kind = None THEN Raise("AttributeError", args.cur)
                 ELSE Return(ASTFunctionCall(ASTIdentifier(name.node.literal),
                                             args.node),
                             IF last.kind = "SEMICOLON" THEN args.cur + 1
                             ELSE args.cur)

\* the while loop of function_call; its node is the parameters list
ArgumentLoop(toks, cur, parameters) ==
    LET token == Parser_peek(toks, cur, 0)
    IN  IF token.kind # None /\ token.kind # "PAREN_CLOSE"
        THEN IF token.kind = "COMMA"
             THEN ArgumentLoop(toks, cur + 1, parameters)
             ELSE LET e == expression(toks, cur, 0)
                  IN  IF ~e.ok THEN e
                      ELSE ArgumentLoop(toks, e.cur, Append(parameters, e.node))
        ELSE Return(parameters, cur)

\* the branch of Parser.statement taken at the cursor
StatementBranch(toks, cur) ==
    LET token == Parser_peek(toks, cur, 0)
        next_token == Parser_peek(toks, cur, 1)
    IN  IF token.kind # None /\ token.kind = "IDENTIFIER"
        THEN IF next_token.kind = None THEN "raise"
             ELSE IF next_token.kind = "ASSIGNMENT" THEN "declaration"
             ELSE IF next_token.kind = "PAREN_OPEN" THEN "function_call"
             ELSE "none"
        ELSE "none"

statement(toks, cur) ==
    LET branch == StatementBranch(toks, cur)
    IN  CASE branch = "raise" -> Raise("AttributeError", cur)
          [] branch = "declaration" -> declaration(toks, cur)
          [] branch = "function_call" -> function_call(toks, cur)
          [] OTHER -> Return(NoneNode, cur)

RECURSIVE ParseFrom(_, _, _)
\* the loop of Parser.parse from the cursor, with the nodes appended so far
ParseFrom(toks, cur, nodes) ==
    LET r == statement(toks, cur)
    IN  IF ~r.ok THEN r
        ELSE IF r.node = NoneNode THEN Return(ASTProgram(nodes), r.cur)
        ELSE ParseFrom(toks, r.cur, Append(nodes, r.node))

\* Parser(toks).parse(): the ASTProgram returned, or the exception raised
parse(toks) == ParseFrom(toks, 0, <<>>)

(***************************************************************************)
(* Parser: the token sequences of the model                                *)
(***************************************************************************)
Tok(kind, literal) == [kind |-> kind, literal |-> literal]

Id(name) == Tok("IDENTIFIER", name)

Num(literal) == Tok("NUMBER", literal)

Assign == Tok("ASSIGNMENT", ":=")

Semi == Tok("SEMICOLON", ";")

Open == Tok("PAREN_OPEN", "(")

Close == Tok("PAREN_CLOSE", ")")

Comma == Tok("COMMA", ",")

Plus == Tok("PLUS", "+")

OperatorKinds == {k \in TokenKind : is_operator(k)}

\* the literal of the i-th primary of a chain, as a number and as an identifier
NumberLiterals == <<"1", "2", "3", "4", "5", "6">>

IdentifierNames == <<"a", "b", "c", "d", "e", "g">>

\* x := p1 op1 p2 ... opn p(n+1) ; where the primaries are NUMBERs, but for
\* the one at position `identifier` (0: none), which is an IDENTIFIER
ChainTokens(ops, identifier) ==
    LET n == Len(ops)
        body == [i \in 1..(2 * n + 1) |->
                   IF i % 2 = 1
                   THEN IF (i + 1) \div 2 = identifier
                        THEN Id(IdentifierNames[(i + 1) \div 2])
                        ELSE Num(NumberLiterals[(i + 1) \div 2])
                   ELSE Tok(ops[i \div 2], CanonicalLiteral[ops[i \div 2]][1])]
    IN  <<Id("x"), Assign>> \o body \o <<Semi>>

Chains ==
    UNION {{ChainTokens(ops, identifier) :
              ops \in [1..n -> OperatorKinds],
              identifier \in 0..(n + 1)} : n \in 0..MaxOps}

\* Well-formed top-level constructs, each with the node the grammar of
\* spec section 4.2 gives it.
Constructs ==
    [decl |->
       [tokens |-> <<Id("x"), Assign, Num("1"), Semi>>,
        node |-> ASTVariableDeclaration(ASTIdentifier("x"), ASTNumber("1"))],
     decl_sum |->
       [tokens |-> <<Id("y"), Assign, Id("a"), Plus, Num("2"), Semi>>,
        node |-> ASTVariableDeclaration(ASTIdentifier("y"),
                   ASTBinaryExpression("PLUS", ASTIdentifier("a"), ASTNumber("2")))],
     call0 |->
       [tokens |-> <<Id("f"), Open, Close, Semi>>,
        node |-> ASTFunctionCall(ASTIdentifier("f"), <<>>)],
     call1 |->
       [tokens |-> <<Id("f"), Open, Num("1"), Close, Semi>>,
        node |-> ASTFunctionCall(ASTIdentifier("f"), <<ASTNumber("1")>>)],
     call2 |->
       [tokens |-> <<Id("f"), Open, Num("1"), Comma, Num("2"), Close, Semi>>,
        node |-> ASTFunctionCall(ASTIdentifier("f"),
                   <<ASTNumber("1"), ASTNumber("2")>>)],
     call_sum |->
       [tokens |-> <<Id("f"), Open, Num("1"), Plus, Num("2"), Comma, Id("a"),
                     Close, Semi>>,
        node |-> ASTFunctionCall(ASTIdentifier("f"),
                   <<ASTBinaryExpression("PLUS", ASTNumber("1"), ASTNumber("2")),
                     ASTIdentifier("a")>>)],
     call_nested |->
       [tokens |-> <<Id("f"), Open, Id("g"), Open, Num("1"), Close, Comma,
                     Num("2"), Close, Semi>>,
        node |-> ASTFunctionCall(ASTIdentifier("f"),
                   <<ASTFunctionCall(ASTIdentifier("g"), <<ASTNumber("1")>>),
                     ASTNumber("2")>>)],
     decl_call |->
       [tokens |-> <<Id("x"), Assign, Id("f"), Open, Num("1"), Close, Semi>>,
        node |-> ASTVariableDeclaration(ASTIdentifier("x"),
                   ASTFunctionCall(ASTIdentifier("f"), <<ASTNumber("1")>>))],
     decl_call_plus |->
       [tokens |-> <<Id("x"), Assign, Id("f"), Open, Num("1"), Close, Plus,
                     Num("2"), Semi>>,
        node |-> ASTVariableDeclaration(ASTIdentifier("x"),
                   ASTBinaryExpression("PLUS",
                     ASTFunctionCall(ASTIdentifier("f"), <<ASTNumber("1")>>),
                     ASTNumber("2")))],
     decl_plus_call |->
       [tokens |-> <<Id("x"), Assign, Num("2"), Plus, Id("f"), Open, Num("1"),
                     Close, Semi>>,
        node |-> ASTVariableDeclaration(ASTIdentifier("x"),
                   ASTBinaryExpression("PLUS", ASTNumber("2"),
                     ASTFunctionCall(ASTIdentifier("f"), <<ASTNumber("1")>>)))]]

ConstructNames == DOMAIN Constructs

CallStatements == {"call0", "call1", "call2", "call_sum", "call_nested"}

RECURSIVE ConstructSeqs(_)
ConstructSeqs(n) ==
    IF n = 0 THEN {<<>>}
    ELSE {Append(cs, c) : cs \in ConstructSeqs(n - 1), c \in ConstructNames}

RECURSIVE Flatten(_)
\* the tokens of a sequence of constructs, in order
Flatten(cs) ==
    IF cs = <<>> THEN <<>>
    ELSE Constructs[Head(cs)].tokens \o Flatten(Tail(cs))

\* the statement nodes of a sequence of constructs, in order
ExpectedNodes(cs) == [i \in 1..Len(cs) |-> Constructs[cs[i]].node]

RawTokens ==
    {Id("x"), Num("1"), Plus, Assign, Semi, Open, Close, Comma, Tok("FOR", "for")}

RECURSIVE RawSeqs(_)
RawSeqs(n) ==
    IF n = 0 THEN {<<>>}
    ELSE {Append(ts, tk) : ts \in RawSeqs(n - 1), tk \in RawTokens}

\* Parser.__init__ on a token list, and parse's empty ASTProgram
InitParse ==
    /\ \/ /\ ptokens \in Chains
          /\ origin = [class |-> "chain", constructs |-> <<>>]
       \/ \E n \in 0..MaxStmts : \E cs \in ConstructSeqs(n) :
            /\ ptokens = Flatten(cs)
            /\ origin = [class |-> "program", constructs |-> cs]
       \/ /\ ptokens \in UNION {RawSeqs(n) : n \in 0..MaxRawLen}
          /\ origin = [class |-> "raw", constructs |-> <<>>]
    /\ pcurrent = 0 /\ program = <<>> /\ pstatus = "running" /\ perror = None
    \* no lexer and no builder
    /\ source = <<>> /\ start = 0 /\ current = 0 /\ tokens = <<>>
    /\ line = 1 /\ column = 0 /\ lexStatus = "idle" /\ lexError = NoError
    /\ scanned = <<>> /\ tokenStarts = <<>>
    /\ ast = NoneNode /\ instructions = <<>> /\ current_variable_id = 0
    /\ frames = <<>> /\ retval = NoVariable /\ bstatus = "idle"
    /\ invocation = 1 /\ firstCall = NoOutcome

(***************************************************************************)
(* Parser: one action per outcome of an iteration of the loop of parse     *)
(***************************************************************************)
ParseAppend_keeps_cursor(branch) ==
    /\ pstatus = "running"
    /\ StatementBranch(ptokens, pcurrent) = branch
    /\ LET r == statement(ptokens, pcurrent)
       IN  /\ r.ok
           /\ program' = Append(program, r.node)
           /\ pcurrent' = pcurrent
    /\ UNCHANGED <<ptokens, pstatus, perror, origin>>

\* statement() returns a node: it is appended to program.nodes
ParseAppend(branch) ==
    /\ pstatus = "running"
    /\ StatementBranch(ptokens, pcurrent) = branch
    /\ LET r == statement(ptokens, pcurrent)
       IN  /\ r.ok
           /\ program' = Append(program, r.node)
           /\ pcurrent' = r.cur
    /\ UNCHANGED <<ptokens, pstatus, perror, origin>>

ParseDeclaration == ParseAppend("declaration") /\ UNCHANGED <<lexVars, buildVars, callVars>>

ParseFunctionCall == ParseAppend("function_call") /\ UNCHANGED <<lexVars, buildVars, callVars>>

\* statement() returns None: parse returns the program
ParseReturn ==
    /\ pstatus = "running"
    /\ StatementBranch(ptokens, pcurrent) = "none"
    /\ pstatus' = "returned"
    /\ pcurrent' = statement(ptokens, pcurrent).cur
    /\ UNCHANGED <<ptokens, program, perror, origin>>
    /\ UNCHANGED <<lexVars, buildVars, callVars>>

\* statement() raises: the exception leaves parse
ParseRaise ==
    /\ pstatus = "running"
    /\ LET r == statement(ptokens, pcurrent)
       IN  /\ ~r.ok
           /\ pstatus' = "raised"
           /\ perror' = r.error
           /\ pcurrent' = r.cur
    /\ UNCHANGED <<ptokens, program, origin>>
    /\ UNCHANGED <<lexVars, buildVars, callVars>>

NextParse ==
    \/ ParseDeclaration
    \/ ParseFunctionCall
    \/ ParseReturn
    \/ ParseRaise

(***************************************************************************)
(* IR (src/compiler/ir/builder.py).  Operands are a sequence: empty for    *)
(* None, one term, or the pair.                                            *)
(***************************************************************************)
IRVariable(id) == [tag |-> "IRVariable", id |-> id, literal |-> None, type |-> None]

IRLiteral(literal, type) ==
    [tag |-> "IRLiteral", id |-> -1, literal |-> literal, type |-> type]

IRInstruction(kind, result, operands) ==
    [kind |-> kind, result |-> result, operands |-> operands]

\* kind_map of the ASTBinaryExpression lowering
kind_map(operation) ==
    CASE operation = "PLUS" -> "ADD"
      [] operation = "MINUS" -> "SUB"
      [] operation = "MULTIPLY" -> "MUL"
      [] operation = "DIVIDE" -> "DIV"
      [] operation = "EXPONENT" -> "EXP"

\* the builder's fields
Builder == [instructions |-> instructions,
            current_variable_id |-> current_variable_id]

new_variable_reusing_id(b) == [var |-> IRVariable(b.current_variable_id), b |-> b]

\* new_variable: the variable returned and the builder after it
new_variable(b) ==
    [var |-> IRVariable(b.current_variable_id),
     b |-> [b EXCEPT !.current_variable_id = @ + 1]]

emit(b, kind, result, operands) ==
    [b EXCEPT !.instructions = Append(@, IRInstruction(kind, result, operands))]

\* the node the second build() call of the ASTBinaryExpression lowering is given
second_operand(node) == node.left

\* the classes build() has a registered lowering for
Registered ==
    {"ASTProgram", "ASTNumber", "ASTIdentifier", "ASTVariableDeclaration",
     "ASTBinaryExpression"}

(***************************************************************************)
(* IRBuilder: the ASTs of the model                                        *)
(***************************************************************************)
CallNode == ASTFunctionCall(ASTIdentifier("f"), <<ASTNumber("1")>>)

LeafNodes == {ASTNumber("1"), ASTIdentifier("a"), CallNode}

RightNodes == {ASTNumber("2"), CallNode}

BinaryExpressionKinds == {"PLUS", "MINUS", "MULTIPLY", "DIVIDE", "EXPONENT"}

\* the operations at nesting depth d: all five innermost, two further out
KindsAt(d) == IF d = 1 THEN BinaryExpressionKinds ELSE {"MINUS", "EXPONENT"}

RECURSIVE Expressions(_)
\* expressions nested to depth d on the left
Expressions(d) ==
    IF d = 0 THEN LeafNodes
    ELSE LeafNodes \cup
         {ASTBinaryExpression(op, l, r) :
            op \in KindsAt(d), l \in Expressions(d - 1), r \in RightNodes}

Declarations ==
    {ASTVariableDeclaration(ASTIdentifier("x"), e) : e \in Expressions(MaxDepth)}

SecondStatements ==
    {ASTVariableDeclaration(ASTIdentifier("y"), ASTNumber("2")), CallNode}

Programs ==
    {ASTProgram(<<>>), ASTProgram(<<CallNode>>)}
      \cup {ASTProgram(<<d>>) : d \in Declarations}
      \cup {ASTProgram(<<d, s>>) : d \in Declarations, s \in SecondStatements}

Frame(node) == [node |-> node, pc |-> 0, result |-> NoVariable, left |-> NoVariable]

\* IRBuilder.__init__ and the call build(ast)
InitBuild ==
    /\ ast \in Expressions(MaxDepth) \cup Declarations \cup Programs
    /\ instructions = <<>> /\ current_variable_id = 0
    /\ frames = <<Frame(ast)>> /\ retval = NoVariable /\ bstatus = "running"
    \* no lexer and no parser
    /\ source = <<>> /\ start = 0 /\ current = 0 /\ tokens = <<>>
    /\ line = 1 /\ column = 0 /\ lexStatus = "idle" /\ lexError = NoError
    /\ scanned = <<>> /\ tokenStarts = <<>>
    /\ ptokens = <<>> /\ pcurrent = 0 /\ program = <<>> /\ pstatus = "idle"
    /\ perror = None /\ origin = [class |-> "none", constructs |-> <<>>]
    /\ invocation = 1 /\ firstCall = NoOutcome

(***************************************************************************)
(* IRBuilder: build() as a stack of activations, one action per step of a  *)
(* registered lowering                                                     *)
(***************************************************************************)
Top == frames[Len(frames)]

Running(type) ==
    /\ bstatus = "running"
    /\ frames # <<>>
    /\ Top.node.type = type

\* the top activation returns value: its caller resumes, or build() is over
ReturnFromBuild(value) ==
    /\ frames' = SubSeq(frames, 1, Len(frames) - 1)
    /\ retval' = value
    /\ bstatus' = IF Len(frames) = 1 THEN "returned" ELSE "running"

\* the top activation moves to pc and calls build(node)
CallBuild(pc, result, left, node) ==
    /\ frames' = Append([frames EXCEPT ![Len(frames)] =
                           [@ EXCEPT !.pc = pc, !.result = result, !.left = left]],
                        Frame(node))
    /\ UNCHANGED <<retval, bstatus>>

SetBuilder(b) ==
    /\ instructions' = b.instructions
    /\ current_variable_id' = b.current_variable_id

BuildProgramNode ==
    /\ Running("ASTProgram")
    /\ Top.pc < Len(Top.node.nodes)
    /\ CallBuild(Top.pc + 1, Top.result, Top.left, Top.node.nodes[Top.pc + 1])
    /\ UNCHANGED <<ast, instructions, current_variable_id>>
    /\ UNCHANGED <<lexVars, parseVars, callVars>>

BuildProgramEnd ==
    /\ Running("ASTProgram")
    /\ Top.pc >= Len(Top.node.nodes)
    /\ ReturnFromBuild(NoVariable)
    /\ UNCHANGED <<ast, instructions, current_variable_id>>
    /\ UNCHANGED <<lexVars, parseVars, callVars>>

BuildNumber ==
    /\ Running("ASTNumber")
    /\ LET nv == new_variable(Builder)
       IN  /\ SetBuilder(emit(nv.b, "CONST", nv.var,
                              <<IRLiteral(Top.node.literal, "INTEGER")>>))
           /\ ReturnFromBuild(nv.var)
    /\ UNCHANGED ast
    /\ UNCHANGED <<lexVars, parseVars, callVars>>

BuildIdentifier ==
    /\ Running("ASTIdentifier")
    /\ LET nv == new_variable(Builder)
       IN  /\ SetBuilder(emit(nv.b, "LOAD", nv.var,
                              <<IRLiteral(Top.node.name, "PTR")>>))
           /\ ReturnFromBuild(nv.var)
    /\ UNCHANGED ast
    /\ UNCHANGED <<lexVars, parseVars, callVars>>

\* new_variable, emit ALLOC, then build(node.expression)
BuildDeclarationAlloc ==
    /\ Running("ASTVariableDeclaration")
    /\ Top.pc = 0
    /\ LET nv == new_variable(Builder)
       IN  /\ SetBuilder(emit(nv.b, "ALLOC", nv.var, <<>>))
           /\ CallBuild(1, nv.var, Top.left, Top.node.expression)
    /\ UNCHANGED ast
    /\ UNCHANGED <<lexVars, parseVars, callVars>>

\* build(node.expression) has returned: emit STORE, return None
BuildDeclarationStore ==
    /\ Running("ASTVariableDeclaration")
    /\ Top.pc = 1
    /\ SetBuilder(emit(Builder, "STORE", NoVariable, <<Top.result, retval>>))
    /\ ReturnFromBuild(NoVariable)
    /\ UNCHANGED ast
    /\ UNCHANGED <<lexVars, parseVars, callVars>>

\* left = self.build(node.left)
BuildBinaryLeft ==
    /\ Running("ASTBinaryExpression")
    /\ Top.pc = 0
    /\ CallBuild(1, Top.result, Top.left, Top.node.left)
    /\ UNCHANGED <<ast, instructions, current_variable_id>>
    /\ UNCHANGED <<lexVars, parseVars, callVars>>

\* the first call has returned left; right = self.build(...)
BuildBinaryRight ==
    /\ Running("ASTBinaryExpression")
    /\ Top.pc = 1
    /\ CallBuild(2, Top.result, retval, second_operand(Top.node))
    /\ UNCHANGED <<ast, instructions, current_variable_id>>
    /\ UNCHANGED <<lexVars, parseVars, callVars>>

\* the second call has returned right: new_variable, emit the mapped kind
BuildBinaryEmit ==
    /\ Running("ASTBinaryExpression")
    /\ Top.pc = 2
    /\ LET nv == new_variable(Builder)
       IN  /\ SetBuilder(emit(nv.b, kind_map(Top.node.operation), nv.var,
                              <<Top.left, retval>>))
           /\ ReturnFromBuild(nv.var)
    /\ UNCHANGED ast
    /\ UNCHANGED <<lexVars, parseVars, callVars>>

\* the generic build(): NotImplementedError for a class with no registration
BuildNotImplemented ==
    /\ bstatus = "running"
    /\ frames # <<>>
    /\ Top.node.type \notin Registered
    /\ bstatus' = "raised"
    /\ UNCHANGED <<ast, instructions, current_variable_id, frames, retval>>
    /\ UNCHANGED <<lexVars, parseVars, callVars>>

NextBuild ==
    \/ BuildProgramNode
    \/ BuildProgramEnd
    \/ BuildNumber
    \/ BuildIdentifier
    \/ BuildDeclarationAlloc
    \/ BuildDeclarationStore
    \/ BuildBinaryLeft
    \/ BuildBinaryRight
    \/ BuildBinaryEmit
    \/ BuildNotImplemented

(***************************************************************************)
(* A second call on the same object.  No method resets the fields that     *)
(* __init__ set: tokenize and build start from what the first call left;   *)
(* parse makes a new ASTProgram and keeps the cursor.                      *)
(***************************************************************************)
\* lexer.tokenize() once more
TokenizeAgain ==
    /\ lexStatus \in {"returned", "raised"}
    /\ invocation = 1
    /\ invocation' = 2
    /\ firstCall' = [NoOutcome EXCEPT !.status = lexStatus, !.tokens = tokens,
                                      !.error = lexError, !.cursor = current]
    /\ lexStatus' = "running"
    /\ lexError' = NoError
    /\ UNCHANGED <<source, start, current, tokens, line, column, scanned,
                   tokenStarts>>
    /\ UNCHANGED <<parseVars, buildVars>>

\* parser.parse() once more: program = ASTProgram()
ParseAgain ==
    /\ pstatus \in {"returned", "raised"}
    /\ invocation = 1
    /\ invocation' = 2
    /\ firstCall' = [NoOutcome EXCEPT !.status = pstatus, !.program = program,
                                      !.perror = perror, !.cursor = pcurrent]
    /\ program' = <<>>
    /\ pstatus' = "running"
    /\ perror' = None
    /\ UNCHANGED <<ptokens, pcurrent, origin>>
    /\ UNCHANGED <<lexVars, buildVars>>

BuildAgain_with_fresh_fields ==
    /\ bstatus \in {"returned", "raised"}
    /\ invocation = 1
    /\ invocation' = 2
    /\ firstCall' = [NoOutcome EXCEPT !.status = bstatus,
                                      !.instructions = instructions,
                                      !.retval = retval,
                                      !.counter = current_variable_id]
    /\ instructions' = <<>>
    /\ current_variable_id' = 0
    /\ frames' = <<Frame(ast)>>
    /\ retval' = NoVariable
    /\ bstatus' = "running"
    /\ UNCHANGED ast
    /\ UNCHANGED <<lexVars, parseVars>>

\* builder.build(ast) once more, with the same ast
BuildAgain ==
    /\ bstatus \in {"returned", "raised"}
    /\ invocation = 1
    /\ invocation' = 2
    /\ firstCall' = [NoOutcome EXCEPT !.status = bstatus,
                                      !.instructions = instructions,
                                      !.retval = retval,
                                      !.counter = current_variable_id]
    /\ frames' = <<Frame(ast)>>
    /\ retval' = NoVariable
    /\ bstatus' = "running"
    /\ UNCHANGED <<ast, instructions, current_variable_id>>
    /\ UNCHANGED <<lexVars, parseVars>>

(***************************************************************************)
(* Specifications                                                          *)
(***************************************************************************)
SpecLex == InitLex /\ [][NextLex]_vars

SpecParse == InitParse /\ [][NextParse]_vars

SpecBuild == InitBuild /\ [][NextBuild]_vars

\* One object of the three, called once and then once more.
InitObjects == InitLex \/ InitParse \/ InitBuild

NextObjects ==
    \/ NextLex
    \/ NextParse
    \/ NextBuild
    \/ TokenizeAgain
    \/ ParseAgain
    \/ BuildAgain

\* The program is sequential and has no suspension point: a call that is
\* running takes its next step, which is weak fairness of each object's
\* steps.  A step of parse is enabled exactly while parse is running
\* (statement() returns a node, returns None or raises), and its weak
\* fairness is written with that condition in the place of ENABLED.
CallsKeepRunning ==
    /\ WF_vars(NextLex)
    /\ WF_vars(NextBuild)
    /\ ([]<>(pstatus # "running") \/ []<><<NextParse>>_vars)

SpecObjects == InitObjects /\ [][NextObjects]_vars /\ CallsKeepRunning

(***************************************************************************)
(* Properties of the Parser                                                *)
(***************************************************************************)
\* The reference grammar: how tightly each operator binds, and which
\* operators group to the right.
RefBinding == [PLUS |-> 1, MINUS |-> 1, MULTIPLY |-> 2, DIVIDE |-> 2, EXPONENT |-> 3]

RefGroupsRight == {"EXPONENT"}

RefPrimary(tok) ==
    IF tok.kind = "NUMBER" THEN ASTNumber(tok.literal) ELSE ASTIdentifier(tok.literal)

Minimum(S) == CHOOSE m \in S : \A n \in S : m <= n

Maximum(S) == CHOOSE m \in S : \A n \in S : m >= n

RECURSIVE RefExpr(_, _, _)
\* The tree of the chain toks[lo..hi] (primaries at lo, lo+2, ..): split at
\* the loosest operator, the last one of its level when the level groups to
\* the left, the first one when it groups to the right.
RefExpr(toks, lo, hi) ==
    IF lo = hi THEN RefPrimary(toks[lo])
    ELSE LET at == {k \in (lo + 1)..(hi - 1) : (k - lo) % 2 = 1}
             loosest == Minimum({RefBinding[toks[k].kind] : k \in at})
             level == {k \in at : RefBinding[toks[k].kind] = loosest}
             k == IF \E j \in level : toks[j].kind \in RefGroupsRight
                  THEN Minimum(level) ELSE Maximum(level)
         IN  ASTBinaryExpression(toks[k].kind, RefExpr(toks, lo, k - 1),
                                 RefExpr(toks, k + 1, hi))

\* C1: for `x := e ;` with e a chain of NUMBER / IDENTIFIER primaries and
\* binary operators, parse neither raises nor yields any tree but the one
\* the reference precedence/associativity grammar gives e.
C1_PrecedenceClimbing ==
    origin.class = "chain" =>
        /\ pstatus # "raised"
        /\ pstatus = "returned" => program # <<>>
        /\ program # <<>> =>
             program = <<ASTVariableDeclaration(ASTIdentifier("x"),
                            RefExpr(ptokens, 3, Len(ptokens) - 1))>>

\* x := 1 + 2 ^ 3 ^ 4 ; has been parsed to Plus(1, Exponent(2, Exponent(3, 4)))
C1_Witness ==
    /\ origin.class = "chain"
    /\ pstatus = "returned"
    /\ program = <<ASTVariableDeclaration(ASTIdentifier("x"),
                     ASTBinaryExpression("PLUS", ASTNumber("1"),
                       ASTBinaryExpression("EXPONENT", ASTNumber("2"),
                         ASTBinaryExpression("EXPONENT", ASTNumber("3"),
                                             ASTNumber("4")))))>>

\* C2: for a concatenation of well-formed top-level constructs, parse
\* returns a Program with exactly one statement node per construct, in
\* source order, and has consumed every token when it returns.
C2_OneStatementPerConstruct ==
    origin.class = "program" =>
        /\ pstatus # "raised"
        /\ pstatus = "returned" =>
             /\ program = ExpectedNodes(origin.constructs)
             /\ pcurrent = Len(ptokens)

\* C3: once a standalone call statement `f ( e1 , ... , en ) ;` has been
\* parsed, its node is FunctionCall(f, [e1, ..., en]) and the cursor is past
\* the closing parenthesis and the semicolon.
C3_CallStatementConsumed ==
    (/\ origin.class = "program"
     /\ Len(origin.constructs) = 1
     /\ origin.constructs[1] \in CallStatements) =>
        /\ pstatus # "raised"
        /\ program # <<>> =>
             /\ program[1] = Constructs[origin.constructs[1]].node
             /\ pcurrent = Len(ptokens)

\* C4: `x := f(1) + 2;` declares x as BinaryExpression(Plus, f(1), 2): the
\* call is the left operand, the rest of the expression the right one, and
\* the call does not take the statement's semicolon.
C4_CallAsLeftOperand ==
    (origin.class = "program" /\ origin.constructs = <<"decl_call_plus">>) =>
        /\ pstatus # "raised"
        /\ program # <<>> =>
             /\ program[1] = Constructs["decl_call_plus"].node
             /\ LET e == expression(ptokens, 2, 0)
                IN  /\ e.ok
                    /\ e.node = Constructs["decl_call_plus"].node.expression
                    /\ e.cur = Len(ptokens) - 1

\* the case statement() is claimed to answer with None: no IDENTIFIER at the
\* cursor, or an IDENTIFIER followed by neither := nor ( (or by nothing)
NoStatementHere(toks, cur) ==
    \/ cur >= Len(toks)
    \/ toks[cur + 1].kind # "IDENTIFIER"
    \/ cur + 1 >= Len(toks)
    \/ toks[cur + 2].kind \notin {"ASSIGNMENT", "PAREN_OPEN"}

\* C10: at statement position, when the current token is no IDENTIFIER, or
\* an IDENTIFIER continued by neither := nor ( (nothing included), the
\* parser's next step is parse returning the statements so far, without an
\* error and without consuming a token.
C10_StopsSilently ==
    [][(pstatus = "running" /\ NoStatementHere(ptokens, pcurrent)) =>
          (pstatus' = "returned" /\ pcurrent' = pcurrent /\ program' = program)]_vars

(***************************************************************************)
(* Properties of the Lexer                                                 *)
(***************************************************************************)
\* C5: a source that is exactly the canonical literal of a token kind lexes
\* to exactly one token, of that kind, whose literal is the source text.
C5_CanonicalLiteralLexesToItsKind ==
    \A k \in DOMAIN CanonicalLiteral :
        (source = CanonicalLiteral[k] /\ lexStatus \in {"returned", "raised"}) =>
            /\ lexStatus = "returned"
            /\ Len(tokens) = 1
            /\ tokens[1].kind = k
            /\ tokens[1].literal = source

\* ".." has been lexed to one RANGE token
C5_Witness ==
    /\ source = <<".", ".">>
    /\ lexStatus = "returned"
    /\ tokens = <<[kind |-> "RANGE", literal |-> <<".", ".">>, line |-> 1,
                   column |-> 1]>>

NewlinesBefore(src, p) == Cardinality({q \in 1..p : src[q] = NL})

\* position p (0-based) is a '#' or lies between a '#' and the next newline
InComment(src, p) ==
    \E q \in 1..(p + 1) : src[q] = "#" /\ \A j \in q..(p + 1) : src[j] # NL

RECURSIVE StripFrom(_, _, _)
StripFrom(src, i, inComment) ==
    IF i > Len(src) THEN <<>>
    ELSE IF src[i] = NL THEN <<NL>> \o StripFrom(src, i + 1, FALSE)
    ELSE IF inComment \/ src[i] = "#" THEN StripFrom(src, i + 1, TRUE)
    ELSE <<src[i]>> \o StripFrom(src, i + 1, FALSE)

\* the source with every comment deleted and its newline kept
StripComments(src) == StripFrom(src, 1, FALSE)

\* C6: no token holds a character of a comment; the returned tokens have the
\* kinds, literals and lines of the tokens of the source with its comments
\* deleted (newlines kept); and every token's line is 1 plus the number of
\* newlines in front of it.
C6_CommentsAreSkipped ==
    /\ \A i \in 1..Len(tokens) :
         /\ tokens[i].line = 1 + NewlinesBefore(source, tokenStarts[i])
         /\ \A p \in tokenStarts[i]..(tokenStarts[i] + Len(tokens[i].literal) - 1) :
              ~InComment(source, p)
    /\ lexStatus \in {"returned", "raised"} =>
         LET stripped == tokenize(StripComments(source))
         IN  /\ stripped.status = lexStatus
             /\ lexStatus = "returned" =>
                  /\ Len(stripped.tokens) = Len(tokens)
                  /\ \A i \in 1..Len(tokens) :
                       /\ stripped.tokens[i].kind = tokens[i].kind
                       /\ stripped.tokens[i].literal = tokens[i].literal
                       /\ stripped.tokens[i].line = tokens[i].line

\* "x := 1; # c\ny := 2;" has been lexed: y is the fifth token, on line 2
C6_Witness ==
    /\ lexStatus = "returned"
    /\ \E p \in 1..Len(source) : source[p] = "#"
    /\ Len(tokens) = 8
    /\ tokens[5].kind = "IDENTIFIER"
    /\ tokens[5].literal = <<"y">>
    /\ tokens[5].line = 2

Whitespace == {" ", "\t", "\r", NL}

\* a token kind's canonical symbol stands at position p (0-based)
RecognizedSymbolAt(src, p) ==
    \E k \in DOMAIN CanonicalLiteral \ {"FOR"} :
        /\ p + Len(CanonicalLiteral[k]) <= Len(src)
        /\ SubSeq(src, p + 1, p + Len(CanonicalLiteral[k])) = CanonicalLiteral[k]

\* the character at p is not whitespace, a recognized symbol, a letter, a
\* digit or '#'
Offending(src, p) ==
    /\ src[p + 1] \notin Whitespace \cup Letters \cup Digits \cup {"#"}
    /\ ~RecognizedSymbolAt(src, p)

LineOf(src, p) == 1 + NewlinesBefore(src, p)

\* 1-based column of position p on its line
ColumnOf(src, p) ==
    p + 1 - Maximum({0} \cup {q \in 1..p : src[q] = NL})

\* C7: tokenize raises exactly when its scan reaches, outside a comment, a
\* character that is not whitespace, a recognized symbol, a letter, a digit
\* or '#'; the error then carries that character and the line and column at
\* which it stands.  A source with '@' outside a comment is never lexed to
\* the end.
C7_LexErrorAtOffendingCharacter ==
    /\ \A i \in 1..Len(scanned) :
         /\ source[scanned[i] + 1] # "#" => ~InComment(source, scanned[i])
         /\ Offending(source, scanned[i]) <=>
              (lexStatus = "raised" /\ i = Len(scanned))
    /\ lexStatus = "raised" =>
         /\ scanned # <<>>
         /\ lexError.char = source[scanned[Len(scanned)] + 1]
         /\ lexError.line = LineOf(source, scanned[Len(scanned)])
         /\ lexError.column = ColumnOf(source, scanned[Len(scanned)])
    /\ lexStatus # "raised" => lexError = NoError
    /\ lexStatus = "returned" =>
         \A p \in 0..(Len(source) - 1) : source[p + 1] = "@" => InComment(source, p)

\* '@' on line 2, column 2, after a token, has raised the error
C7_Witness ==
    /\ lexStatus = "raised"
    /\ lexError = [char |-> "@", line |-> 2, column |-> 2]
    /\ Len(tokens) = 1

(***************************************************************************)
(* Properties of the IRBuilder                                             *)
(***************************************************************************)
\* the variables among the operands of an instruction
OperandVariables(instruction) ==
    {instruction.operands[k] : k \in {j \in 1..Len(instruction.operands) :
                                        instruction.operands[j].tag = "IRVariable"}}

\* C8: in every state of a build, result ids strictly increase in emission
\* order, and every operand variable is the result of an earlier instruction.
C8_MonotonicDefBeforeUse ==
    /\ \A i, j \in 1..Len(instructions) :
         (/\ i < j
          /\ instructions[i].result.tag = "IRVariable"
          /\ instructions[j].result.tag = "IRVariable") =>
            instructions[i].result.id < instructions[j].result.id
    /\ \A j \in 1..Len(instructions) :
         \A v \in OperandVariables(instructions[j]) :
            \E i \in 1..(j - 1) : instructions[i].result = v

\* a declaration of a nested binary expression has been lowered
C8_Witness ==
    /\ bstatus = "returned"
    /\ Len(instructions) >= 9
    /\ instructions[Len(instructions)].kind = "STORE"
    /\ \E j \in 1..Len(instructions) :
         /\ instructions[j].kind = "SUB"
         /\ Cardinality(OperandVariables(instructions[j])) = 2

\* C9: build of a VariableDeclaration ends having appended one Alloc with a
\* fresh result a, then the initializer's instructions leaving its value in
\* v, then one Store without result and with operands (a, v), and returns
\* None.
C9_DeclarationAllocEvalStore ==
    (ast.type = "ASTVariableDeclaration" /\ bstatus \in {"returned", "raised"}) =>
        LET n == Len(instructions)
        IN  /\ bstatus = "returned"
            /\ retval = NoVariable
            /\ n >= 3
            /\ instructions[1] = IRInstruction("ALLOC", IRVariable(0), <<>>)
            /\ instructions[n].kind = "STORE"
            /\ instructions[n].result = NoVariable
            /\ instructions[n].operands =
                  <<IRVariable(0), instructions[n - 1].result>>
            /\ \A i \in 2..(n - 1) :
                  instructions[i].kind \notin {"ALLOC", "STORE"}

\* the Programs parse returns for the well-formed sources of the model
ParsedPrograms ==
    {parse(Flatten(cs)).node :
        cs \in {c \in UNION {ConstructSeqs(n) : n \in 0..MaxStmts} :
                  parse(Flatten(c)).ok}}

\* C11: lowering a Program that parse returns never ends in the "not
\* implemented" failure: build has a lowering for every node in it.
C11_ParsedProgramsLower ==
    (ast \in ParsedPrograms) => bstatus # "raised"

\* the arithmetic instruction of each operator, as the claim lists them
RefArithmetic ==
    [PLUS |-> "ADD", MINUS |-> "SUB", MULTIPLY |-> "MUL", DIVIDE |-> "DIV",
     EXPONENT |-> "EXP"]

RECURSIVE LeftTwice(_, _)
\* the instructions claimed for an expression whose first fresh id is base:
\* a leaf is one instruction, a binary expression is its left operand
\* twice and the arithmetic instruction; the right operand is not looked at
LeftTwice(node, base) ==
    CASE node.type = "ASTNumber" ->
           <<IRInstruction("CONST", IRVariable(base),
                           <<IRLiteral(node.literal, "INTEGER")>>)>>
      [] node.type = "ASTIdentifier" ->
           <<IRInstruction("LOAD", IRVariable(base),
                           <<IRLiteral(node.name, "PTR")>>)>>
      [] node.type = "ASTBinaryExpression" ->
           LET first == LeftTwice(node.left, base)
               second == LeftTwice(node.left, base + Len(first))
           IN  first \o second \o
               <<IRInstruction(RefArithmetic[node.operation],
                               IRVariable(base + Len(first) + Len(second)),
                               <<first[Len(first)].result,
                                 second[Len(second)].result>>)>>

\* C12: the build of BinaryExpression(op, L, R) ends having emitted L's
\* instructions twice and then the arithmetic instruction of op, whatever R
\* is: the last instruction has a fresh result, which build returns, and as
\* operands the two distinct values of the first and the second lowering of
\* L; R contributes no instruction.
C12_LeftLoweredTwice ==
    (ast.type = "ASTBinaryExpression" /\ bstatus \in {"returned", "raised"}) =>
        /\ bstatus = "returned"
        /\ instructions = LeftTwice(ast, 0)
        /\ LET n == Len(instructions)
               half == (n - 1) \div 2
               last == instructions[n]
           IN  /\ n = 2 * half + 1
               /\ last.kind = RefArithmetic[ast.operation]
               /\ last.result = retval
               /\ \A i \in 1..(n - 1) : instructions[i].result # last.result
               /\ last.operands =
                     <<instructions[half].result, instructions[n - 1].result>>
               /\ instructions[half].result # instructions[n - 1].result
               /\ \A i \in 1..half :
                     /\ instructions[half + i].kind = instructions[i].kind
                     /\ instructions[half + i].result.id =
                           instructions[i].result.id + half

(***************************************************************************)
(* Properties of a second call on the same object                          *)
(***************************************************************************)
\* C13 as the spec states it: when a second call on the same object with
\* the same input has ended, its result is the first call's result: the
\* same tokens or error, the same Program or error, the same instruction
\* list and value.
C13_SecondCallSameResult ==
    invocation = 2 =>
        /\ lexStatus \in {"returned", "raised"} =>
              /\ lexStatus = firstCall.status
              /\ lexStatus = "returned" => tokens = firstCall.tokens
              /\ lexError = firstCall.error
        /\ pstatus \in {"returned", "raised"} =>
              /\ pstatus = firstCall.status
              /\ program = firstCall.program
              /\ perror = firstCall.perror
        /\ bstatus \in {"returned", "raised"} =>
              /\ bstatus = firstCall.status
              /\ instructions = firstCall.instructions
              /\ retval = firstCall.retval

\* a term with every variable id raised by k
Renumbered(term, k) ==
    IF term.tag = "IRVariable" THEN IRVariable(term.id + k) ELSE term

\* an instruction list with every variable id raised by k
RenumberedAll(list, k) ==
    [i \in 1..Len(list) |->
        IRInstruction(list[i].kind, Renumbered(list[i].result, k),
                      [j \in 1..Len(list[i].operands) |->
                          Renumbered(list[i].operands[j], k)])]

\* C13 amended: the state a call leaves in its object is where the next
\* call starts.  After a first call that returned: a second tokenize scans
\* nothing and returns the same token list; a second parse stays at the
\* cursor the first left and returns an empty Program; a second build of
\* the same AST returns with the first list followed by the same
\* instructions with every variable id raised by the first call's count,
\* the counter doubled.
C13_StateOutlivesCall ==
    (invocation = 2 /\ firstCall.status = "returned") =>
        /\ lexStatus # "idle" =>
              /\ lexStatus # "raised"
              /\ current = firstCall.cursor
              /\ tokens = firstCall.tokens
        /\ pstatus # "idle" =>
              /\ pstatus # "raised"
              /\ pcurrent = firstCall.cursor
              /\ program = <<>>
        /\ bstatus # "idle" =>
              /\ bstatus # "raised"
              /\ Len(instructions) >= Len(firstCall.instructions)
              /\ bstatus = "returned" =>
                    /\ instructions =
                          firstCall.instructions \o
                          RenumberedAll(firstCall.instructions, firstCall.counter)
                    /\ current_variable_id = 2 * firstCall.counter
                    /\ retval = Renumbered(firstCall.retval, firstCall.counter)

\* a declaration has been built twice by one builder: six instructions or
\* more, the second half with continued ids; and its source-level twin: a
\* second build that returned
C13_Witness ==
    /\ invocation = 2
    /\ bstatus = "returned"
    /\ ast.type = "ASTVariableDeclaration"
    /\ firstCall.status = "returned"
    /\ firstCall.counter >= 3
    /\ Len(instructions) = 2 * Len(firstCall.instructions)
    /\ instructions[Len(firstCall.instructions) + 1].result =
          IRVariable(firstCall.counter)

(***************************************************************************)
(* Termination of tokenize and parse                                       *)
(***************************************************************************)
\* where the cursor is after the iteration of the operator loop of
\* expression that consumes the operator at cur
OperatorIteration(toks, cur) ==
    expression(toks, cur + 1, final_precedence(toks[cur + 1].kind))

\* where the cursor is after the iteration of the argument loop of
\* function_call entered at cur
ArgumentIteration(toks, cur) ==
    IF toks[cur + 1].kind = "COMMA" THEN Return(NoneNode, cur + 1)
    ELSE expression(toks, cur, 0)

\* wherever in toks an iteration of either loop starts and ends without an
\* exception, it ends further on, within the list
InnerLoopsAdvance(toks) ==
    \A cur \in 0..(Len(toks) - 1) :
        /\ is_operator(toks[cur + 1].kind) =>
              LET r == OperatorIteration(toks, cur)
              IN  r.ok => (r.cur > cur /\ r.cur <= Len(toks))
        /\ toks[cur + 1].kind # "PAREN_CLOSE" =>
              LET r == ArgumentIteration(toks, cur)
              IN  r.ok => (r.cur > cur /\ r.cur <= Len(toks))

\* C14: every iteration of the scan loop and of the statement loop leaves
\* the cursor further on and within the input, so do the operator loop and
\* the argument loop, and every call of tokenize and of parse that is
\* running ends: it returns or raises.
C14_LoopsAdvanceAndEnd ==
    /\ [][/\ scanned' # scanned =>
               (current' > current /\ current' <= Len(source))
          /\ (pstatus = "running" /\ program' # program) =>
               (pcurrent' > pcurrent /\ pcurrent' <= Len(ptokens))]_vars
    /\ [](InnerLoopsAdvance(ptokens) /\ current <= Len(source)
            /\ pcurrent <= Len(ptokens))
    /\ (lexStatus = "running") ~> (lexStatus \in {"returned", "raised"})
    /\ (pstatus = "running") ~> (pstatus \in {"returned", "raised"})

\* `y := a + 2; f(1, 2);` has been parsed to its end: the statement loop,
\* the operator loop and the argument loop have each gone round
C14_Witness ==
    /\ origin.constructs = <<"decl_sum", "call2">>
    /\ pstatus = "returned"
    /\ invocation = 1
    /\ Len(program) = 2
    /\ program[1].expression.type = "ASTBinaryExpression"
    /\ Len(program[2].parameters) = 2
    /\ pcurrent > 6

(***************************************************************************)
(* Token positions                                                         *)
(***************************************************************************)
\* C15: every token holds the line on which it starts and the 1-based
\* column of its first character on that line, whatever its kind and
\* length.
C15_ColumnOfFirstCharacter ==
    \A i \in 1..Len(tokens) :
        /\ tokens[i].line = LineOf(source, tokenStarts[i])
        /\ tokens[i].column = ColumnOf(source, tokenStarts[i])

====
